---- MODULE Spec2Model ----
(***************************************************************************)
(* The chat session of EduSphere-Frontend: the useChatRoom hook            *)
(* (app/chatRoom/hooks/useChatRoom.ts), the SocketService singleton        *)
(* (services/socket.ts) and the composer of the chat view                  *)
(* (app/chatRoom/chatRoom.tsx).                                            *)
(*                                                                         *)
(* One hook instance is modelled.  A "session" is one run of the hook's    *)
(* effect (useChatRoom.ts:43-146): the first on mount, one more each time  *)
(* roomId or userId changes.  Sessions are numbered 1, 2, ... in the order *)
(* the effect runs; the closures a run creates (handleNewMessage,          *)
(* handleUserTyping, the fetch continuation, the connect continuation,     *)
(* the cleanup) keep that run's roomId and userId, while the state and the *)
(* two refs (isMounted, typingTimeouts) belong to the hook instance and    *)
(* are shared by all runs.                                                 *)
(*                                                                         *)
(* Beside the chat session stand the grouping of the message list by date  *)
(* in the view, and the authentication: AuthProvider                       *)
(* (contexts/AuthContext.tsx), ProtectedRoute (components/HomeRedirect.tsx)*)
(* and AuthService.login (services/api.ts).                                *)
(***************************************************************************)
EXTENDS Naturals, Sequences, FiniteSets, TLC

VARIABLES
    messages,        \* useState<Message[]>            useChatRoom.ts:23
    isLoading,       \* useState<boolean>              useChatRoom.ts:24
    error,           \* useState<string | null>        useChatRoom.ts:25
    roomName,        \* useState<string>               useChatRoom.ts:26
    typingUsers,     \* useState<{userId, username}[]> useChatRoom.ts:27
    typingTimeouts,  \* useRef: userId -> timer handle useChatRoom.ts:28
    isMounted,       \* useRef<boolean>                useChatRoom.ts:29
    phase,           \* life of the component: "init", "mounted", "unmounted"
    sessions,        \* the effect runs so far, with their closures' values
    socket,          \* SocketService.socket (0 is null)   socket.ts:80
    sockets,         \* every socket io() has created, with its listeners
    timers,          \* the timeouts pending in the event loop
    emitted,         \* what socket.emit was called with, in order
    requests,        \* the calls of RoomService the hook has made, in order
    user,            \* AuthProvider: useState<User | null>   AuthContext.tsx:47
    token,           \* AuthProvider: useState<string | null> AuthContext.tsx:48
    authLoading,     \* AuthProvider: isLoading               AuthContext.tsx:49
    authPhase,       \* "init" until initializeAuth has run, then "ready"
    localStorage,    \* the items edusphere_user and edusphere_token
    loginCall,       \* the call of AuthService.login: its loop's position
    last             \* the operation that led to this state

vars == <<messages, isLoading, error, roomName, typingUsers, typingTimeouts,
          isMounted, phase, sessions, socket, sockets, timers, emitted, requests,
          user, token, authLoading, authPhase, localStorage, loginCall, last>>

\* the state of the chat hook and its transport, and the state of AuthProvider
chatVars == <<messages, isLoading, error, roomName, typingUsers, typingTimeouts,
              isMounted, phase, sessions, socket, sockets, timers, emitted, requests>>
authVars == <<user, token, authLoading, authPhase, localStorage, loginCall>>

hookState == <<messages, isLoading, error, roomName, typingUsers>>

(***************************************************************************)
(* Bounds of the model.                                                    *)
(***************************************************************************)
MaxSessions == 2     \* effect runs of the hook instance
MaxMsgs == 2         \* inbound new-message events are delivered below this length
MaxSends == 1        \* send-message / typing signals emitted by the composer
MaxList == 3         \* messages of a fetched history that the view groups

(***************************************************************************)
(* Values.                                                                 *)
(***************************************************************************)
None == "undefined"                 \* undefined / null / absent
Rooms == {"A", "B"}
Me == "u1"
RoomIds == Rooms \cup {None}
\* <<useParams().roomId, user?.id?.toString()>>, the arguments of the hook
Props == { <<"A", Me>>, <<"B", Me>>, <<"A", None>>, <<None, Me>> }
Peers == {"u2", "u3"}               \* the users whose typing events arrive

\* Strings are sequences of characters, so that trim() is computed.
Blank == " "
Contents == { <<>>, <<Blank, Blank>>, <<Blank, "a", Blank>> }

\* The usernames the server sends with a typing event: u3's is empty.
EventUsername(u) == IF u = "u2" THEN "bob" ELSE ""

\* The user of a new-message event (SocketMessage.user) as it arrives: any
\* field may be absent, and so may the user itself (null is TRUE then).
EventUser(id, username, email, firstName, lastName) ==
    [null |-> FALSE, id |-> id, username |-> username, email |-> email,
     firstName |-> firstName, lastName |-> lastName]
NoUser ==
    [null |-> TRUE, id |-> None, username |-> None, email |-> None,
     firstName |-> None, lastName |-> None]

\* m1 has a whole user, m2 a user without username and names, m3 a user
\* with neither username nor email, m4 no user.  sent_at is the server's
\* timestamp: m2 comes without one.
NewMessageEvents ==
    { [id |-> "m1", room_id |-> "A", sent_at |-> "2024-03-01T09:00",
       user |-> EventUser("u2", "bob", "bob@edu", "Bob", "Ray")],
      [id |-> "m2", room_id |-> "A", sent_at |-> None,
       user |-> EventUser("u3", None, "cy@edu", None, None)],
      [id |-> "m3", room_id |-> "B", sent_at |-> "2024-02-29T23:00",
       user |-> EventUser(None, None, None, "Di", None)],
      [id |-> "m4", room_id |-> "A", sent_at |-> "2024-03-01T09:05",
       user |-> NoUser] }

UserTypingEvents ==
    { [user_id |-> u, username |-> EventUsername(u), is_typing |-> b, room_id |-> r] :
        u \in Peers, b \in BOOLEAN, r \in RoomIds }

\* What GET /rooms/:id and GET /rooms/:id/messages answer for room r.
RoomNames(r) == {"", IF r = "A" THEN "Room A" ELSE "Room B"}
\* (the message list may be missing from the answer: null is TRUE then)
History(r) ==
    { [null |-> TRUE, list |-> <<>>],
      [null |-> FALSE, list |-> <<>>],
      [null |-> FALSE,
       list |-> <<[id |-> "h", room_id |-> r, sent_at |-> "2024-02-29T08:00",
                   user |-> [id |-> "u2", username |-> "bob",
                             firstName |-> "Bob", lastName |-> "Ray"]]>>] }

(***************************************************************************)
(* Pure helpers.                                                           *)
(***************************************************************************)
\* String.prototype.trim
RECURSIVE TrimLeft(_)
TrimLeft(s) ==
    IF s = <<>> THEN s
    ELSE IF Head(s) = Blank THEN TrimLeft(Tail(s)) ELSE s

RECURSIVE TrimRight(_)
TrimRight(s) ==
    IF s = <<>> THEN s
    ELSE IF s[Len(s)] = Blank THEN TrimRight(SubSeq(s, 1, Len(s) - 1)) ELSE s

Trim(s) == TrimRight(TrimLeft(s))

\* JavaScript truthiness of an optional string
Truthy(x) == x # None /\ x # ""

\* Array.prototype.filter(u => u.userId !== userId)
RECURSIVE FilterOut(_, _)
FilterOut(list, userId) ==
    IF list = <<>> THEN <<>>
    ELSE IF Head(list).userId = userId
         THEN FilterOut(Tail(list), userId)
         ELSE <<Head(list)>> \o FilterOut(Tail(list), userId)

Range(f) == { f[x] : x \in DOMAIN f }

\* a function without the key k (delete obj[k])
Without(f, k) == [x \in DOMAIN f \ {k} |-> f[x]]

\* a function with f[k] = v (obj[k] = v)
With(f, k, v) == [x \in DOMAIN f \cup {k} |-> IF x = k THEN v ELSE f[x]]

TypingIds == { typingUsers[i].userId : i \in DOMAIN typingUsers }

Count(list, userId) == Cardinality({ i \in DOMAIN list : list[i].userId = userId })

EmptyMap == [x \in {} |-> 0]

(***************************************************************************)
(* SocketService (services/socket.ts).  A socket is                        *)
(* [connected, newMessage, userTyping, lost, attempts, failed]: whether    *)
(* its connection is up, the sessions whose handlers are registered on it  *)
(* for 'new-message' and 'user-typing' in registration order, whether its  *)
(* connection failed or broke and is being re-established, the             *)
(* reconnection attempts made since, and whether they were given up.       *)
(***************************************************************************)
maxReconnectAttempts == 5    \* socket.ts:81, given to io() as reconnectionAttempts

Signal(ev, room_id, user_id, arg, sock) ==
    [ev |-> ev, room_id |-> room_id, user_id |-> user_id, arg |-> arg, sock |-> sock]

\* connect(): this.socket = io(SOCKET_URL, ...), a new socket on every call
Connect(socks) ==
    Append(socks, [connected |-> FALSE, newMessage |-> <<>>, userTyping |-> <<>>,
                   lost |-> FALSE, attempts |-> 0, failed |-> FALSE])

\* joinRoom(data): if (this.socket) this.socket.emit('join-room', data)
SocketJoinRoom(log, sock, room_id, user_id) ==
    IF sock # 0 THEN Append(log, Signal("join-room", room_id, user_id, None, sock)) ELSE log

\* leaveRoom(data): if (this.socket) this.socket.emit('leave-room', data)
SocketLeaveRoom(log, sock, room_id, user_id) ==
    IF sock # 0 THEN Append(log, Signal("leave-room", room_id, user_id, None, sock)) ELSE log

\* sendMessage(data): if (this.socket) this.socket.emit('send-message', data)
SocketSendMessage(log, sock, room_id, user_id, content) ==
    IF sock # 0 THEN Append(log, Signal("send-message", room_id, user_id, content, sock)) ELSE log

\* sendTyping(data): if (this.socket) this.socket.emit('typing', data)
SocketSendTyping(log, sock, room_id, user_id, isTyping) ==
    IF sock # 0 THEN Append(log, Signal("typing", room_id, user_id, isTyping, sock)) ELSE log

\* onNewMessage(callback): if (this.socket) this.socket.on('new-message', callback)
OnNewMessage(socks, sock, s) ==
    IF sock # 0 THEN [socks EXCEPT ![sock].newMessage = Append(@, s)] ELSE socks

\* onUserTyping(callback): if (this.socket) this.socket.on('user-typing', callback)
OnUserTyping(socks, sock, s) ==
    IF sock # 0 THEN [socks EXCEPT ![sock].userTyping = Append(@, s)] ELSE socks

(***************************************************************************)
(* The hook (useChatRoom.ts).                                              *)
(***************************************************************************)
Cur == Len(sessions)                       \* the session of the latest effect run
CurRoom == IF Cur = 0 THEN None ELSE sessions[Cur].roomId
CurUser == IF Cur = 0 THEN None ELSE sessions[Cur].userId

\* the latest effect run returned a cleanup that has not run yet
HasCleanup == Cur > 0 /\ sessions[Cur].cleanup /\ ~sessions[Cur].torn

\* joinRoom = useCallback(...), lines 31-35
HookJoinRoom(log, sock, roomId, userId) ==
    IF Truthy(roomId) /\ Truthy(userId) THEN SocketJoinRoom(log, sock, roomId, userId) ELSE log

\* leaveRoom = useCallback(...), lines 37-41
HookLeaveRoom(log, sock, roomId, userId) ==
    IF Truthy(roomId) /\ Truthy(userId) THEN SocketLeaveRoom(log, sock, roomId, userId) ELSE log

\* setTimeout(...): a handle that no pending timer has and nothing holds.  The
\* browser never returns a handle twice; handles are compared only for
\* equality, so the least free one stands for the fresh one.
NewHandle(ts, handles) ==
    LET used == { t.id : t \in ts } \cup Range(handles)
    IN  CHOOSE h \in 1..(Cardinality(used) + 1) :
            h \notin used /\ \A g \in 1..(h - 1) : g \in used

\* clearTimeout(handle)
ClearTimeout(ts, handle) == { t \in ts : t.id # handle }

\* (a cleanup that forgets the timers)
ClearNone(ts, handles) == ts

\* Object.values(typingTimeouts.current).forEach(clearTimeout), line 143
ClearAll(ts, handles) == { t \in ts : t.id \notin Range(handles) }

\* The cleanup the effect returns (lines 140-145), as the values it leaves.
\* A run that returned early (line 78) has no cleanup.
CleanupIsMounted == IF HasCleanup THEN FALSE ELSE isMounted
CleanupEmitted ==
    IF HasCleanup
    THEN HookLeaveRoom(emitted, socket, sessions[Cur].roomId, sessions[Cur].userId)
    ELSE emitted
CleanupTimers == IF HasCleanup THEN ClearAll(timers, typingTimeouts) ELSE timers
CleanupTimeouts == IF HasCleanup THEN EmptyMap ELSE typingTimeouts
CleanupSessions ==
    IF HasCleanup THEN [sessions EXCEPT ![Cur].torn = TRUE] ELSE sessions

\* Promise.all([RoomService.getRoom(roomId), RoomService.getMessages(roomId)]),
\* lines 55-58: the two requests session s issues
FetchRoomAndMessages(log, roomId, s) ==
    log \o << [api |-> "getRoom", roomId |-> roomId, sess |-> s],
              [api |-> "getMessages", roomId |-> roomId, sess |-> s] >>

\* The effect body (lines 44-138) for the props <<roomId, userId>>, run after
\* the cleanup of the previous run: ses is the sessions after that cleanup.
Effect(roomId, userId, ses) ==
    LET both == Truthy(roomId) /\ Truthy(userId)
        s == Len(ses) + 1
        socks == IF both THEN Connect(sockets) ELSE sockets
        sock == IF both THEN Len(socks) ELSE socket
    IN  /\ isMounted' = TRUE
        \* fetchRoomAndMessages up to its first await, then lines 76-79
        /\ isLoading' = Truthy(roomId)
        /\ error' = IF both THEN None ELSE "Both room ID and user ID are required"
        /\ sessions' = Append(ses,
               [roomId |-> roomId, userId |-> userId,
                fetch |-> IF Truthy(roomId) THEN "pending" ELSE "none",
                conn |-> IF both THEN "pending" ELSE "none",
                sock |-> IF both THEN sock ELSE 0,
                cleanup |-> both, torn |-> FALSE])
        /\ requests' = IF Truthy(roomId) THEN FetchRoomAndMessages(requests, roomId, s)
                                         ELSE requests
        /\ socket' = sock
        /\ sockets' = IF both THEN OnUserTyping(OnNewMessage(socks, sock, s), sock, s)
                              ELSE sockets
        /\ UNCHANGED <<messages, roomName, typingUsers>>

\* The component mounts with the props <<roomId, userId>>.
Mount(roomId, userId) ==
    /\ phase = "init"
    /\ phase' = "mounted"
    /\ Effect(roomId, userId, sessions)
    /\ UNCHANGED authVars
    /\ last' = [op |-> "mount", sess |-> 1, data |-> None]
    /\ UNCHANGED <<typingTimeouts, timers, emitted>>

\* roomId or userId changes: the cleanup of the previous run, then the effect.
ChangeProps(roomId, userId) ==
    /\ phase = "mounted"
    /\ Cur < MaxSessions
    /\ <<roomId, userId>> # <<CurRoom, CurUser>>
    /\ emitted' = CleanupEmitted
    /\ timers' = CleanupTimers
    /\ typingTimeouts' = CleanupTimeouts
    /\ Effect(roomId, userId, CleanupSessions)
    /\ UNCHANGED authVars
    /\ last' = [op |-> "change", sess |-> Cur + 1, data |-> None]
    /\ UNCHANGED phase

\* The component unmounts: the cleanup alone.
Unmount ==
    /\ phase = "mounted"
    /\ phase' = "unmounted"
    /\ isMounted' = CleanupIsMounted
    /\ emitted' = CleanupEmitted
    /\ timers' = CleanupTimers
    /\ typingTimeouts' = CleanupTimeouts
    /\ sessions' = CleanupSessions
    /\ UNCHANGED authVars
    /\ last' = [op |-> "unmount", sess |-> Cur, data |-> None]
    /\ UNCHANGED <<requests, hookState, socket, sockets>>

(***************************************************************************)
(* Continuations of the effect's asynchronous calls.                       *)
(***************************************************************************)
\* roomDetails.name || 'Unknown Room', line 60
NameOrUnknown(name) == IF Truthy(name) THEN name ELSE "Unknown Room"

\* msgs || [], line 61
MsgsOrEmpty(msgs) == IF msgs.null THEN <<>> ELSE msgs.list

\* Promise.all of getRoom and getMessages resolves for session s (lines 55-62,
\* 67-71).
FetchResolve(s, name, msgs) ==
    /\ sessions[s].fetch = "pending"
    /\ sessions' = [sessions EXCEPT ![s].fetch = "done"]
    /\ IF isMounted
       THEN /\ roomName' = NameOrUnknown(name)
            /\ messages' = MsgsOrEmpty(msgs)
            /\ isLoading' = FALSE
       ELSE UNCHANGED <<roomName, messages, isLoading>>
    /\ UNCHANGED authVars
    /\ last' = [op |-> "fetchResolve", sess |-> s, data |-> None]
    /\ UNCHANGED <<requests, error, typingUsers, typingTimeouts, isMounted, phase, socket,
                   sockets, timers, emitted>>

\* (a catch that asks for the room and the messages once more)
FetchRejectRetries(s) ==
    /\ sessions[s].fetch = "pending"
    /\ sessions' = [sessions EXCEPT ![s].fetch = "done"]
    /\ IF isMounted
       THEN /\ error' = "Failed to fetch room or messages"
            /\ isLoading' = FALSE
       ELSE UNCHANGED <<error, isLoading>>
    /\ requests' = FetchRoomAndMessages(requests, sessions[s].roomId, s)
    /\ UNCHANGED authVars
    /\ last' = [op |-> "fetchReject", sess |-> s, data |-> None]
    /\ UNCHANGED <<roomName, messages, typingUsers, typingTimeouts, isMounted, phase,
                   socket, sockets, timers, emitted>>

\* Promise.all rejects for session s (lines 63-71).  RoomService throws the
\* plain object handleApiError returns, never an Error.
FetchReject(s) ==
    /\ sessions[s].fetch = "pending"
    /\ sessions' = [sessions EXCEPT ![s].fetch = "done"]
    /\ IF isMounted
       THEN /\ error' = "Failed to fetch room or messages"
            /\ isLoading' = FALSE
       ELSE UNCHANGED <<error, isLoading>>
    /\ UNCHANGED authVars
    /\ last' = [op |-> "fetchReject", sess |-> s, data |-> None]
    /\ UNCHANGED <<requests, roomName, messages, typingUsers, typingTimeouts, isMounted, phase,
                   socket, sockets, timers, emitted>>

\* The socket session s created fires 'connect' (socket.ts:97-100): the promise
\* of connect() resolves and the continuation of lines 81-85 runs.
ConnectResolve(s) ==
    /\ sessions[s].conn = "pending"
    /\ sessions' = [sessions EXCEPT ![s].conn = "resolved"]
    /\ sockets' = [sockets EXCEPT ![sessions[s].sock].connected = TRUE]
    /\ emitted' = IF isMounted /\ Truthy(sessions[s].roomId) /\ Truthy(sessions[s].userId)
                  THEN HookJoinRoom(emitted, socket, sessions[s].roomId, sessions[s].userId)
                  ELSE emitted
    /\ UNCHANGED authVars
    /\ last' = [op |-> "connectResolve", sess |-> s, data |-> None]
    /\ UNCHANGED <<requests, hookState, typingTimeouts, isMounted, phase, socket, timers>>

\* (a catch that joins the room all the same)
ConnectRejectJoins(s) ==
    /\ sessions[s].conn = "pending"
    /\ sessions' = [sessions EXCEPT ![s].conn = "rejected"]
    /\ error' = IF isMounted THEN "Failed to connect to socket" ELSE error
    /\ emitted' = HookJoinRoom(emitted, socket, sessions[s].roomId, sessions[s].userId)
    /\ UNCHANGED authVars
    /\ last' = [op |-> "connectReject", sess |-> s, data |-> None]
    /\ sockets' = [sockets EXCEPT ![sessions[s].sock].lost = TRUE]
    /\ UNCHANGED <<requests, messages, isLoading, roomName, typingUsers, typingTimeouts,
                   isMounted, phase, socket, timers>>

\* The socket session s created fires 'connect_error' (socket.ts:102-105): the
\* promise rejects and the continuation of lines 85-89 runs.  The socket was
\* made with reconnection: true, so its manager goes on trying.
ConnectReject(s) ==
    /\ sessions[s].conn = "pending"
    /\ sessions' = [sessions EXCEPT ![s].conn = "rejected"]
    /\ error' = IF isMounted THEN "Failed to connect to socket" ELSE error
    /\ sockets' = [sockets EXCEPT ![sessions[s].sock].lost = TRUE]
    /\ UNCHANGED authVars
    /\ last' = [op |-> "connectReject", sess |-> s, data |-> None]
    /\ UNCHANGED <<requests, messages, isLoading, roomName, typingUsers, typingTimeouts,
                   isMounted, phase, socket, timers, emitted>>

(***************************************************************************)
(* The transport after the first handshake.  The sockets are made with     *)
(* reconnection: true, reconnectionAttempts: maxReconnectAttempts          *)
(* (socket.ts:90-95); the handlers SocketService registers for the events  *)
(* of the reconnection write to the console and nothing else.              *)
(***************************************************************************)
\* (a disconnect that puts the hook back to loading)
DisconnectReloads(k) ==
    /\ sockets[k].connected
    /\ sockets' = [sockets EXCEPT ![k].connected = FALSE, ![k].lost = TRUE,
                                  ![k].attempts = 0]
    /\ isLoading' = TRUE
    /\ UNCHANGED authVars
    /\ last' = [op |-> "disconnect", sess |-> k, data |-> None]
    /\ UNCHANGED <<requests, messages, error, roomName, typingUsers, typingTimeouts,
                   isMounted, phase, sessions, socket, timers, emitted>>

\* the connection of socket k breaks: 'disconnect' (socket.ts:107-109)
Disconnect(k) ==
    /\ sockets[k].connected
    /\ sockets' = [sockets EXCEPT ![k].connected = FALSE, ![k].lost = TRUE,
                                  ![k].attempts = 0]
    /\ UNCHANGED authVars
    /\ last' = [op |-> "disconnect", sess |-> k, data |-> None]
    /\ UNCHANGED <<requests, hookState, typingTimeouts, isMounted, phase, sessions,
                   socket, timers, emitted>>

\* an attempt to reconnect socket k fails: 'reconnect_error' (socket.ts:115-117)
ReconnectError(k) ==
    /\ sockets[k].lost /\ ~sockets[k].failed
    /\ sockets[k].attempts < maxReconnectAttempts
    /\ sockets' = [sockets EXCEPT ![k].attempts = @ + 1]
    /\ UNCHANGED authVars
    /\ last' = [op |-> "reconnectError", sess |-> k, data |-> None]
    /\ UNCHANGED <<requests, hookState, typingTimeouts, isMounted, phase, sessions,
                   socket, timers, emitted>>

\* an attempt to reconnect socket k succeeds: 'reconnect' (socket.ts:111-113)
\* and 'connect' (97-100), whose resolve() finds the promise settled
Reconnect(k) ==
    /\ sockets[k].lost /\ ~sockets[k].failed
    /\ sockets[k].attempts < maxReconnectAttempts
    /\ sockets' = [sockets EXCEPT ![k].connected = TRUE, ![k].lost = FALSE,
                                  ![k].attempts = 0]
    /\ UNCHANGED authVars
    /\ last' = [op |-> "reconnect", sess |-> k, data |-> None]
    /\ UNCHANGED <<requests, hookState, typingTimeouts, isMounted, phase, sessions,
                   socket, timers, emitted>>

\* the attempts of socket k are used up: 'reconnect_failed' (socket.ts:119-121)
ReconnectFailed(k) ==
    /\ sockets[k].lost /\ ~sockets[k].failed
    /\ sockets[k].attempts = maxReconnectAttempts
    /\ sockets' = [sockets EXCEPT ![k].failed = TRUE]
    /\ UNCHANGED authVars
    /\ last' = [op |-> "reconnectFailed", sess |-> k, data |-> None]
    /\ UNCHANGED <<requests, hookState, typingTimeouts, isMounted, phase, sessions,
                   socket, timers, emitted>>

(***************************************************************************)
(* Inbound events.  The server's event reaches one socket, which calls the *)
(* handlers registered on it in registration order.                        *)
(***************************************************************************)
\* a ?? b
Nullish(a, b) == IF a # None THEN a ELSE b

\* const msg: Message = {...}, lines 93-106.  Ids are strings here, and None
\* is the string String(undefined) gives, so String(userObj.id) is its
\* argument.
ToMessage(data) ==
    [id |-> data.id, room_id |-> data.room_id, sent_at |-> data.sent_at,
     user |-> [id |-> data.user.id,
               username |-> Nullish(data.user.username,
                                    Nullish(data.user.email, "Unknown User")),
               firstName |-> Nullish(data.user.firstName, ""),
               lastName |-> Nullish(data.user.lastName, "")]]

\* handleNewMessage of a session whose roomId is roomId throws: userObj.id
\* at line 101 reads a property of undefined when the event has no user
NewMessageThrows(roomId, data) ==
    isMounted /\ data.room_id = roomId /\ data.user.null

\* handleNewMessage of a session whose roomId is roomId (lines 91-108), as the
\* message list it leaves: the TypeError of line 101 comes before setMessages
HandleNewMessage(prev, roomId, data) ==
    IF ~isMounted \/ data.room_id # roomId
    THEN prev
    ELSE IF NewMessageThrows(roomId, data)
         THEN prev
         ELSE Append(prev, ToMessage(data))

\* the socket calls its listeners in registration order; a listener that
\* throws ends the loop
RECURSIVE DispatchNewMessage(_, _, _)
DispatchNewMessage(listeners, prev, data) ==
    IF listeners = <<>> THEN prev
    ELSE IF NewMessageThrows(sessions[Head(listeners)].roomId, data) THEN prev
    ELSE DispatchNewMessage(Tail(listeners),
             HandleNewMessage(prev, sessions[Head(listeners)].roomId, data), data)

\* 'new-message' with data arrives on socket k
NewMessage(k, data) ==
    /\ k \in DOMAIN sockets
    /\ sockets[k].connected
    /\ Len(messages) < MaxMsgs
    /\ messages' = DispatchNewMessage(sockets[k].newMessage, messages, data)
    /\ UNCHANGED authVars
    /\ last' = [op |-> "newMessage", sess |-> k,
                data |-> [event |-> data,
                          raised |-> \E s \in Range(sockets[k].newMessage) :
                                        NewMessageThrows(sessions[s].roomId, data)]]
    /\ UNCHANGED <<requests, isLoading, error, roomName, typingUsers, typingTimeouts, isMounted,
                   phase, sessions, socket, sockets, timers, emitted>>

\* (an updater that appends without filtering the user's earlier entry)
TypingUpdateNoFilter(prev, data) ==
    IF data.is_typing
    THEN Append(prev, [userId |-> data.user_id,
                       username |-> IF Truthy(data.username) THEN data.username
                                    ELSE "Unknown User"])
    ELSE FilterOut(prev, data.user_id)

\* the updater given to setTypingUsers, lines 117-123
TypingUpdate(prev, data) ==
    LET filtered == FilterOut(prev, data.user_id)
    IN  IF data.is_typing
        THEN Append(filtered, [userId |-> data.user_id,
                               username |-> IF Truthy(data.username) THEN data.username
                                            ELSE "Unknown User"])
        ELSE filtered

\* (a renewal that does not cancel the earlier timer)
TypingTimerNoClear(st, data) ==
    IF data.is_typing
    THEN LET h == NewHandle(st.timers, st.typingTimeouts)
         IN  [st EXCEPT
                !.timers = st.timers \cup {[id |-> h, user_id |-> data.user_id]},
                !.typingTimeouts = With(st.typingTimeouts, data.user_id, h)]
    ELSE st

\* lines 124-134: the timers and the handles after a handled typing event.
\* st is [typingUsers, typingTimeouts, timers].
TypingTimer(st, data) ==
    IF data.is_typing
    THEN LET cleared == IF data.user_id \in DOMAIN st.typingTimeouts
                        THEN ClearTimeout(st.timers, st.typingTimeouts[data.user_id])
                        ELSE st.timers
             h == NewHandle(cleared, st.typingTimeouts)
         IN  [st EXCEPT
                !.timers = cleared \cup {[id |-> h, user_id |-> data.user_id]},
                !.typingTimeouts = With(st.typingTimeouts, data.user_id, h)]
    ELSE st

\* handleUserTyping of a session whose roomId is roomId (lines 113-135)
HandleUserTyping(st, roomId, data) ==
    IF ~isMounted \/ (data.room_id # None /\ data.room_id # roomId)
    THEN st
    ELSE TypingTimer([st EXCEPT !.typingUsers = TypingUpdate(st.typingUsers, data)], data)

RECURSIVE DispatchUserTyping(_, _, _)
DispatchUserTyping(listeners, st, data) ==
    IF listeners = <<>> THEN st
    ELSE DispatchUserTyping(Tail(listeners),
             HandleUserTyping(st, sessions[Head(listeners)].roomId, data), data)

\* some handler of 'user-typing' on socket k passes its guard (line 116)
Applies(k, data) ==
    /\ isMounted
    /\ \E s \in Range(sockets[k].userTyping) :
           data.room_id = None \/ data.room_id = sessions[s].roomId

\* 'user-typing' with data arrives on socket k
UserTyping(k, data) ==
    /\ k \in DOMAIN sockets
    /\ sockets[k].connected
    /\ LET st == DispatchUserTyping(sockets[k].userTyping,
                     [typingUsers |-> typingUsers, typingTimeouts |-> typingTimeouts,
                      timers |-> timers], data)
       IN  /\ typingUsers' = st.typingUsers
           /\ typingTimeouts' = st.typingTimeouts
           /\ timers' = st.timers
    /\ UNCHANGED authVars
    /\ last' = [op |-> "userTyping", sess |-> k,
                data |-> [user_id |-> data.user_id, is_typing |-> data.is_typing,
                          was |-> data.user_id \in TypingIds,
                          applied |-> Applies(k, data)]]
    /\ UNCHANGED <<requests, messages, isLoading, error, roomName, isMounted, phase, sessions,
                   socket, sockets, emitted>>

\* the callback given to setTimeout (lines 128-133) runs for the pending timer t
TimerFire(t) ==
    /\ t \in timers
    /\ timers' = timers \ {t}
    /\ IF isMounted
       THEN /\ typingUsers' = FilterOut(typingUsers, t.user_id)
            /\ typingTimeouts' = Without(typingTimeouts, t.user_id)
       ELSE UNCHANGED <<typingUsers, typingTimeouts>>
    /\ UNCHANGED authVars
    /\ last' = [op |-> "timerFire", sess |-> 0,
                data |-> [user_id |-> t.user_id, was |-> t.user_id \in TypingIds]]
    /\ UNCHANGED <<requests, messages, isLoading, error, roomName, isMounted, phase, sessions,
                   socket, sockets, emitted>>

(***************************************************************************)
(* What the hook returns to the view, and the composer of the view.        *)
(***************************************************************************)
NumSends(log) ==
    Cardinality({ i \in DOMAIN log : log[i].ev \in {"send-message", "typing"} })

\* (a check of the content that forgets trim())
SendRejectedNoTrim(content, roomId, userId) ==
    content = <<>> \/ ~Truthy(roomId) \/ ~Truthy(userId)

\* line 149: !content.trim() || !roomId || !userId
SendRejected(content, roomId, userId) ==
    Trim(content) = <<>> \/ ~Truthy(roomId) \/ ~Truthy(userId)

\* (a sendMessage that emits its signal twice)
SendMessageEmittedTwice(log, content) ==
    IF SendRejected(content, CurRoom, CurUser)
    THEN log
    ELSE SocketSendMessage(SocketSendMessage(log, socket, CurRoom, CurUser, content),
                           socket, CurRoom, CurUser, content)

\* sendMessage (lines 148-162), as the signals emitted
SendMessageEmitted(log, content) ==
    IF SendRejected(content, CurRoom, CurUser)
    THEN log
    ELSE SocketSendMessage(log, socket, CurRoom, CurUser, content)

\* sendMessage (lines 148-162), as the error it leaves
SendMessageError(err, content) ==
    IF SendRejected(content, CurRoom, CurUser)
    THEN "Invalid message or missing room/user ID"
    ELSE err

\* sendTyping (lines 164-171), as the signals emitted
SendTypingEmitted(log, isTyping) ==
    IF ~Truthy(CurRoom) \/ ~Truthy(CurUser)
    THEN log
    ELSE SocketSendTyping(log, socket, CurRoom, CurUser, isTyping)

\* the view calls sendMessage(content)
SendMessage(content) ==
    /\ phase = "mounted"
    /\ NumSends(emitted) < MaxSends
    /\ emitted' = SendMessageEmitted(emitted, content)
    /\ error' = SendMessageError(error, content)
    /\ UNCHANGED authVars
    /\ last' = [op |-> "sendMessage", sess |-> Cur, data |-> content]
    /\ UNCHANGED <<requests, messages, isLoading, roomName, typingUsers, typingTimeouts, isMounted,
                   phase, sessions, socket, sockets, timers>>

\* (a sendTyping that shows the user's own typing at once)
SendTypingShowsSelf(isTyping) ==
    /\ phase = "mounted"
    /\ NumSends(emitted) < MaxSends
    /\ emitted' = SendTypingEmitted(emitted, isTyping)
    /\ typingUsers' = IF isTyping /\ Truthy(CurUser)
                      THEN Append(FilterOut(typingUsers, CurUser),
                                  [userId |-> CurUser, username |-> "Unknown User"])
                      ELSE typingUsers
    /\ UNCHANGED authVars
    /\ last' = [op |-> "sendTyping", sess |-> Cur, data |-> isTyping]
    /\ UNCHANGED <<requests, messages, isLoading, error, roomName, typingTimeouts,
                   isMounted, phase, sessions, socket, sockets, timers>>

\* the input's onChange calls sendTyping(!!value), chatRoom.tsx:213-216
SendTyping(isTyping) ==
    /\ phase = "mounted"
    /\ NumSends(emitted) < MaxSends
    /\ emitted' = SendTypingEmitted(emitted, isTyping)
    /\ UNCHANGED authVars
    /\ last' = [op |-> "sendTyping", sess |-> Cur, data |-> isTyping]
    /\ UNCHANGED <<requests, hookState, typingTimeouts, isMounted, phase, sessions, socket,
                   sockets, timers>>

\* (a composer that forgets trim())
HandleSendReturnsNoTrim(input) == input = <<>>

\* handleSend of the view with the composer holding input, chatRoom.tsx:27-33:
\* whether it returns at line 28
HandleSendReturns(input) == Trim(input) = <<>>

HandleSend(input) ==
    /\ phase = "mounted"
    /\ NumSends(emitted) < MaxSends
    /\ IF HandleSendReturns(input)
       THEN UNCHANGED <<emitted, error>>
       ELSE /\ emitted' = SendTypingEmitted(SendMessageEmitted(emitted, input), FALSE)
            /\ error' = SendMessageError(error, input)
    /\ UNCHANGED authVars
    /\ last' = [op |-> "handleSend", sess |-> Cur, data |-> input]
    /\ UNCHANGED <<requests, messages, isLoading, roomName, typingUsers, typingTimeouts, isMounted,
                   phase, sessions, socket, sockets, timers>>

\* What the message pane of the view renders, chatRoom.tsx:116-121: the
\* loading text, else the error text, else the message list.
Pane ==
    IF isLoading THEN "loading"
    ELSE IF Truthy(error) THEN "error"
    ELSE "messages"

(***************************************************************************)
(* The message list of the view (chatRoom.tsx:75-145): the date label of a *)
(* message, the grouping of the reversed list by label, and the React key  *)
(* of a list item.  A date is a record of the local year, month and day;   *)
(* the time of day plays no part in a label.                               *)
(***************************************************************************)
Day(y, m, d) == [nan |-> FALSE, y |-> y, m |-> m, d |-> d]
NaN == [nan |-> TRUE, y |-> 0, m |-> 0, d |-> 0]

\* new Date(msg.sent_at) for the timestamps of the model: any other string
\* gives an invalid date, whose getTime() is NaN
ParseDate(str) ==
    CASE str = "2024-03-01T09:00" -> Day(2024, 3, 1)
      [] str = "2024-03-01T09:05" -> Day(2024, 3, 1)
      [] str = "2024-02-29T23:00" -> Day(2024, 2, 29)
      [] str = "2024-02-29T08:00" -> Day(2024, 2, 29)
      [] str = "2023-03-01T10:00" -> Day(2023, 3, 1)
      [] OTHER -> NaN

IsLeap(y) == (y % 4 = 0 /\ y % 100 # 0) \/ y % 400 = 0

DaysInMonth(y, m) ==
    IF m = 2 THEN (IF IsLeap(y) THEN 29 ELSE 28)
    ELSE IF m \in {4, 6, 9, 11} THEN 30 ELSE 31

\* const yesterday = new Date(now); yesterday.setDate(nowDay - 1): day 0 is
\* the last day of the month before
Yesterday(now) ==
    IF now.d > 1 THEN Day(now.y, now.m, now.d - 1)
    ELSE IF now.m > 1 THEN Day(now.y, now.m - 1, DaysInMonth(now.y, now.m - 1))
    ELSE Day(now.y - 1, 12, 31)

MonthName(m) ==
    <<"January", "February", "March", "April", "May", "June", "July",
      "August", "September", "October", "November", "December">>[m]

\* date.toLocaleDateString(undefined, {day: 'numeric', month: 'long',
\* year: 'numeric'}), in a locale that writes the day first
ToLocaleDateString(date) ==
    ToString(date.d) \o " " \o MonthName(date.m) \o " " \o ToString(date.y)

\* getDateLabel, lines 76-89, with new Date() = now
GetDateLabel(date, now) ==
    IF date.y = now.y /\ date.m = now.m /\ date.d = now.d THEN "Today"
    ELSE IF /\ date.y = Yesterday(now).y
            /\ date.m = Yesterday(now).m
            /\ date.d = Yesterday(now).d THEN "Yesterday"
    ELSE ToLocaleDateString(date)

\* the label of one message, lines 96-102
LabelOf(msg, now) ==
    IF Truthy(msg.sent_at)
    THEN IF ~ParseDate(msg.sent_at).nan
         THEN GetDateLabel(ParseDate(msg.sent_at), now)
         ELSE "No date"
    ELSE "No date"

\* Array.prototype.reverse, on the copy [...messages] or on the array itself
RECURSIVE Reverse(_)
Reverse(list) ==
    IF list = <<>> THEN <<>> ELSE Append(Reverse(Tail(list)), Head(list))

\* (a scan that opens a new group for every message)
GroupStepAlwaysPushes(acc, msg, now) ==
    [groups |-> Append(acc.groups, [label |-> LabelOf(msg, now), items |-> <<msg>>]),
     lastLabel |-> LabelOf(msg, now)]

\* the body of reversedMessages.forEach, lines 95-108: acc is groupedMessages
\* with lastLabel
GroupStep(acc, msg, now) ==
    LET label == LabelOf(msg, now)
        n == Len(acc.groups)
    IN  IF n = 0 \/ acc.lastLabel # label
        THEN [groups |-> Append(acc.groups, [label |-> label, items |-> <<msg>>]),
              lastLabel |-> label]
        ELSE [groups |-> [acc.groups EXCEPT ![n].items = Append(@, msg)],
              lastLabel |-> acc.lastLabel]

RECURSIVE ForEach(_, _, _)
ForEach(acc, list, now) ==
    IF list = <<>> THEN acc
    ELSE ForEach(GroupStep(acc, Head(list), now), Tail(list), now)

\* groupedMessages, lines 91-109, of the list the hook returned
GroupedMessages(list, now) ==
    ForEach([groups |-> <<>>, lastLabel |-> ""], Reverse(list), now).groups

\* compositeKey of the item at index idx (from 0) of its group, line 138
CompositeKey(msg, idx) ==
    IF Truthy(msg.id) /\ Truthy(msg.sent_at) THEN msg.id \o "_" \o msg.sent_at
    ELSE IF Truthy(msg.id) THEN msg.id
    ELSE IF Truthy(msg.sent_at) THEN msg.sent_at
    ELSE ToString(idx)

\* the keys of the <li> elements of the messages, in the order of the groups
RECURSIVE KeysOf(_)
KeysOf(groups) ==
    IF groups = <<>> THEN <<>>
    ELSE [i \in DOMAIN Head(groups).items |-> CompositeKey(Head(groups).items[i], i - 1)]
             \o KeysOf(Tail(groups))

\* The current dates of the model: new Date() is one of these at a render.
Nows == { Day(2024, 3, 1), Day(2024, 3, 2), Day(2024, 1, 1) }

\* (a render that reverses the hook's array itself, without the copy)
RenderReversesInPlace(now) ==
    /\ phase = "mounted"
    /\ messages' = Reverse(messages)
    /\ UNCHANGED authVars
    /\ last' = [op |-> "render", sess |-> Len(sessions),
                data |-> [now |-> now, groups |-> GroupedMessages(messages, now)]]
    /\ UNCHANGED <<isLoading, error, roomName, typingUsers, typingTimeouts, isMounted,
                   phase, sessions, socket, sockets, timers, emitted, requests>>

\* One render of ChatRoom, lines 91-109: the groups are computed from a
\* reversed copy of messages, whatever the pane then shows.
Render(now) ==
    /\ phase = "mounted"
    /\ messages' = messages
    /\ UNCHANGED authVars
    /\ last' = [op |-> "render", sess |-> Len(sessions),
                data |-> [now |-> now, groups |-> GroupedMessages(messages, now)]]
    /\ UNCHANGED <<isLoading, error, roomName, typingUsers, typingTimeouts, isMounted,
                   phase, sessions, socket, sockets, timers, emitted, requests>>

(***************************************************************************)
(* Authentication: AuthProvider (contexts/AuthContext.tsx), the roles      *)
(* (contexts/authTypes.ts), ProtectedRoute (components/HomeRedirect.tsx)   *)
(* and AuthService.login (services/api.ts).  One call of login is in       *)
(* progress at a time.                                                     *)
(***************************************************************************)
UserRoles == {"STUDENT", "TEACHER", "ADMIN"}

ROLE_HIERARCHY == [STUDENT |-> 0, TEACHER |-> 1, ADMIN |-> 2]

\* User | null: null is TRUE for no user
NoAuthUser == [null |-> TRUE, role |-> None]
AuthUser(role) == [null |-> FALSE, role |-> role]

\* The role strings the backend sends, and a user without role.
BackendRoles == {"ADMIN", "teacher", "STUDENT", "User", "moderator", None}

\* String.prototype.toUpperCase over the role strings of the model
ToUpperCase(str) ==
    CASE str = "teacher" -> "TEACHER"
      [] str = "User" -> "USER"
      [] str = "moderator" -> "MODERATOR"
      [] OTHER -> str

\* mapBackendRoleToUserRole, authTypes.ts:24-38
mapBackendRoleToUserRole(backendRole) ==
    CASE ToUpperCase(backendRole) = "ADMIN" -> "ADMIN"
      [] ToUpperCase(backendRole) = "TEACHER" -> "TEACHER"
      [] ToUpperCase(backendRole) = "STUDENT" -> "STUDENT"
      [] ToUpperCase(backendRole) = "USER" -> "STUDENT"
      [] OTHER -> "STUDENT"

\* processUserData throws: the user data is null or has no role, so that
\* userData.role or role.toUpperCase() reads a property of undefined
ProcessUserDataThrows(userData) == userData.null \/ userData.role = None

\* processUserData, AuthContext.tsx:56-61
processUserData(userData) == AuthUser(mapBackendRoleToUserRole(userData.role))

\* The item edusphere_user: absent, a string JSON.parse rejects, or the
\* JSON of a user (of null, when data.null).
NoItem == [present |-> FALSE, json |-> FALSE, data |-> NoAuthUser]
BadItem == [present |-> TRUE, json |-> FALSE, data |-> NoAuthUser]
JsonItem(data) == [present |-> TRUE, json |-> TRUE, data |-> data]
SavedUsers ==
    {NoItem, BadItem, JsonItem(NoAuthUser)} \cup { JsonItem(AuthUser(r)) : r \in BackendRoles }
SavedTokens == {None, "t0"}

EmptyStorage == [edusphere_user |-> NoItem, edusphere_token |-> None]

\* hasRole, AuthContext.tsx:187-189: user?.role === requiredRole
hasRole(requiredRole) == ~user.null /\ user.role = requiredRole

\* (a comparison that asks for a role above the minimum)
hasHigherRole(minimumRole) ==
    IF user.null THEN FALSE
    ELSE IF minimumRole \notin DOMAIN ROLE_HIERARCHY THEN FALSE
    ELSE ROLE_HIERARCHY[user.role] > ROLE_HIERARCHY[minimumRole]

\* hasMinimumRole, AuthContext.tsx:196-199; a role outside ROLE_HIERARCHY
\* gives undefined, and a comparison with undefined is false
hasMinimumRole(minimumRole) ==
    IF user.null THEN FALSE
    ELSE IF minimumRole \notin DOMAIN ROLE_HIERARCHY THEN FALSE
    ELSE ROLE_HIERARCHY[user.role] >= ROLE_HIERARCHY[minimumRole]

isAuthenticated == ~user.null

\* What ProtectedRoute returns, HomeRedirect.tsx:142-179.
ProtectedRoute(requiredRole, minimumRole) ==
    IF authLoading THEN "LoadingSpinner"
    ELSE IF ~isAuthenticated THEN "Navigate"
    ELSE IF Truthy(requiredRole) /\ ~hasRole(requiredRole) THEN "UnauthorizedAccess"
    ELSE IF Truthy(minimumRole) /\ ~hasMinimumRole(minimumRole) THEN "UnauthorizedAccess"
    ELSE "children"

\* initializeAuth, AuthContext.tsx:67-115, run once after the first render.
InitializeAuth ==
    LET savedUser == localStorage.edusphere_user
        savedToken == localStorage.edusphere_token
        restores == savedUser.present /\ Truthy(savedToken)
        throws == restores /\ (~savedUser.json \/ ProcessUserDataThrows(savedUser.data))
    IN  /\ authPhase = "init"
        /\ authPhase' = "ready"
        /\ user' = IF throws THEN NoAuthUser
                   ELSE IF restores THEN processUserData(savedUser.data)
                   ELSE user
        /\ token' = IF throws THEN None ELSE IF restores THEN savedToken ELSE token
        /\ localStorage' = IF throws THEN EmptyStorage ELSE localStorage
        /\ authLoading' = FALSE
        /\ last' = [op |-> "initializeAuth", sess |-> 0, data |-> None]
        /\ UNCHANGED <<loginCall>>
        /\ UNCHANGED chatVars

maxRetries == 3

Idle == [status |-> "idle", retryCount |-> 0, posts |-> 0]
InProgress == loginCall.status \in {"posting", "delay"}

\* login of AuthProvider (AuthContext.tsx:123-128) up to its await, and
\* AuthService.login (api.ts:247-255) up to its first api.post.
Login ==
    /\ authPhase = "ready"
    /\ ~InProgress
    /\ authLoading' = TRUE
    /\ loginCall' = [status |-> "posting", retryCount |-> 0, posts |-> 1]
    /\ last' = [op |-> "login", sess |-> 0, data |-> None]
    /\ UNCHANGED <<user, token, authPhase, localStorage>>
    /\ UNCHANGED chatVars

\* What POST /auth/login answers with: a user of some role, or no user.
LoginResponses ==
    { [user |-> u, access_token |-> "t1"] :
        u \in {NoAuthUser} \cup { AuthUser(r) : r \in BackendRoles } }

\* api.post resolves (api.ts:255-257): AuthService.login returns the
\* response, and login of AuthProvider goes on (AuthContext.tsx:130-145).
PostResolves(response) ==
    LET throws == ProcessUserDataThrows(response.user)
        processedUser == processUserData(response.user)
    IN  /\ loginCall.status = "posting"
        /\ loginCall' = [loginCall EXCEPT !.status = "returned"]
        /\ user' = IF throws THEN user ELSE processedUser
        /\ token' = IF throws THEN token ELSE response.access_token
        /\ localStorage' = IF throws THEN localStorage
                           ELSE [edusphere_user |-> JsonItem(processedUser),
                                 edusphere_token |-> response.access_token]
        /\ authLoading' = FALSE
        /\ last' = [op |-> "postResolves", sess |-> 0,
                    data |-> [response |-> response, result |-> ~throws]]
        /\ UNCHANGED <<authPhase>>
        /\ UNCHANGED chatVars

\* The errors api.post rejects with.  A message is the sequence of its words.
AxiosErrors ==
    { [isError |-> TRUE, message |-> <<"timeout", "of", "30000ms", "exceeded">>, status |-> 0],
      [isError |-> TRUE, message |-> <<"Network", "Error">>, status |-> 0],
      [isError |-> TRUE, message |-> <<"Request", "failed", "with", "status", "code", "401">>,
       status |-> 401],
      [isError |-> TRUE, message |-> <<"Request", "failed", "with", "status", "code", "504">>,
       status |-> 504] }

\* String.prototype.includes, for a word
Includes(message, word) == \E i \in DOMAIN message : message[i] = word

\* the test of api.ts:271
IsTimeout(err) == err.isError /\ Includes(err.message, "timeout")

\* the response interceptor, api.ts:37-49
Intercepted(storage, err) == IF err.status = 401 THEN EmptyStorage ELSE storage

\* (a catch that tries again after any error while retries are left)
PostRejectsRetriesAnyError(err) ==
    /\ loginCall.status = "posting"
    /\ localStorage' = Intercepted(localStorage, err)
    /\ IF loginCall.retryCount < maxRetries - 1
       THEN /\ loginCall' = [loginCall EXCEPT !.retryCount = @ + 1, !.status = "delay"]
            /\ UNCHANGED authLoading
       ELSE /\ loginCall' = [loginCall EXCEPT !.status = "thrown"]
            /\ authLoading' = FALSE
    /\ last' = [op |-> "postRejects", sess |-> 0, data |-> err]
    /\ UNCHANGED <<user, token, authPhase>>
    /\ UNCHANGED chatVars

\* api.post rejects (api.ts:258-279): a timeout with retries left starts the
\* progressive delay; anything else is thrown, and login of AuthProvider
\* catches it and returns false (AuthContext.tsx:140-145).
PostRejects(err) ==
    /\ loginCall.status = "posting"
    /\ localStorage' = Intercepted(localStorage, err)
    /\ IF IsTimeout(err) /\ loginCall.retryCount < maxRetries - 1
       THEN /\ loginCall' = [loginCall EXCEPT !.retryCount = @ + 1, !.status = "delay"]
            /\ UNCHANGED authLoading
       ELSE /\ loginCall' = [loginCall EXCEPT !.status = "thrown"]
            /\ authLoading' = FALSE
    /\ last' = [op |-> "postRejects", sess |-> 0, data |-> err]
    /\ UNCHANGED <<user, token, authPhase>>
    /\ UNCHANGED chatVars

\* The delay of 1000 * retryCount ms has passed (api.ts:274-275): the loop
\* tests retryCount < maxRetries and posts again, or leaves the loop and
\* throws 'Login failed after all retries' (api.ts:282).
DelayElapses ==
    /\ loginCall.status = "delay"
    /\ IF loginCall.retryCount < maxRetries
       THEN /\ loginCall' = [loginCall EXCEPT !.status = "posting", !.posts = @ + 1]
            /\ UNCHANGED authLoading
       ELSE /\ loginCall' = [loginCall EXCEPT !.status = "thrown"]
            /\ authLoading' = FALSE
    /\ last' = [op |-> "delayElapses", sess |-> 0, data |-> None]
    /\ UNCHANGED <<user, token, authPhase, localStorage>>
    /\ UNCHANGED chatVars

\* logout, AuthContext.tsx:175-180
Logout ==
    /\ authPhase = "ready"
    /\ localStorage' = EmptyStorage
    /\ user' = NoAuthUser
    /\ token' = None
    /\ last' = [op |-> "logout", sess |-> 0, data |-> None]
    /\ UNCHANGED <<authLoading, authPhase, loginCall>>
    /\ UNCHANGED chatVars

\* The roles a route is declared with: a role, or none.
RouteRoles == UserRoles \cup {None}

\* A render of <ProtectedRoute requiredRole minimumRole>.
RenderRoute(requiredRole, minimumRole) ==
    /\ last' = [op |-> "route", sess |-> 0,
                data |-> [requiredRole |-> requiredRole, minimumRole |-> minimumRole,
                          shown |-> ProtectedRoute(requiredRole, minimumRole)]]
    /\ UNCHANGED authVars
    /\ UNCHANGED chatVars

(***************************************************************************)
(* The specification.                                                      *)
(***************************************************************************)
\* AuthProvider before its first render, over an empty localStorage.
AuthIdle ==
    /\ user = NoAuthUser
    /\ token = None
    /\ authLoading = TRUE
    /\ authPhase = "init"
    /\ localStorage = EmptyStorage
    /\ loginCall = Idle

\* The chat hook before it mounts.
InitChat ==
    /\ messages = <<>>
    /\ isLoading = TRUE
    /\ error = None
    /\ roomName = ""
    /\ typingUsers = <<>>
    /\ typingTimeouts = EmptyMap
    /\ isMounted = TRUE
    /\ phase = "init"
    /\ sessions = <<>>
    /\ socket = 0
    /\ sockets = <<>>
    /\ timers = {}
    /\ emitted = <<>>
    /\ requests = <<>>
    /\ last = [op |-> "init", sess |-> 0, data |-> None]

Init == InitChat /\ AuthIdle

\* AuthProvider before its first render, over whatever an earlier visit left
\* in localStorage.
InitAuth ==
    /\ InitChat
    /\ user = NoAuthUser
    /\ token = None
    /\ authLoading = TRUE
    /\ authPhase = "init"
    /\ localStorage \in [edusphere_user : SavedUsers, edusphere_token : SavedTokens]
    /\ loginCall = Idle

\* The component's life: mount, change of roomId or userId, unmount.
Lifecycle ==
    \/ \E p \in Props : Mount(p[1], p[2])
    \/ \E p \in Props : ChangeProps(p[1], p[2])
    \/ Unmount

Fetched ==
    \/ \E s \in DOMAIN sessions : \E name \in RoomNames(sessions[s].roomId),
                                     msgs \in History(sessions[s].roomId) :
           FetchResolve(s, name, msgs)
    \/ \E s \in DOMAIN sessions : FetchReject(s)

Handshake == \E s \in DOMAIN sessions : ConnectResolve(s)

HandshakeFailed == \E s \in DOMAIN sessions : ConnectReject(s)

Inbound == \E k \in DOMAIN sockets, data \in NewMessageEvents : NewMessage(k, data)

Transport ==
    \/ \E k \in DOMAIN sockets : Disconnect(k)
    \/ \E k \in DOMAIN sockets : ReconnectError(k)
    \/ \E k \in DOMAIN sockets : Reconnect(k)
    \/ \E k \in DOMAIN sockets : ReconnectFailed(k)

Typing ==
    \/ \E k \in DOMAIN sockets, data \in UserTypingEvents : UserTyping(k, data)
    \/ \E t \in timers : TimerFire(t)

Composer ==
    \/ \E content \in Contents : SendMessage(content)
    \/ \E b \in BOOLEAN : SendTyping(b)
    \/ \E input \in Contents : HandleSend(input)

\* The typing indicator: the handlers of 'user-typing' and the expiry timers
\* read and write typingUsers, typingTimeouts, timers and isMounted only, so
\* the fetches, the inbound messages and the composer are left out.
NextTyping == Lifecycle \/ Handshake \/ Typing

SpecTyping == Init /\ [][NextTyping]_vars

\* The message list: the fetch of the history and the inbound messages.
NextMessages ==
    \/ Lifecycle
    \/ Fetched
    \/ Handshake
    \/ HandshakeFailed
    \/ Inbound

SpecMessages == Init /\ [][NextMessages]_vars

\* The composer: what the view sends.
NextSend == Lifecycle \/ Handshake \/ HandshakeFailed \/ Composer

\* Everything the transport delivers to the handlers of the hook.
NextEvents == Lifecycle \/ Handshake \/ Inbound \/ Typing

SpecEvents == Init /\ [][NextEvents]_vars

SpecSend == Init /\ [][NextSend]_vars

\* The initialisation of the sessions: the fetch of the history and the
\* handshake, either of which may fail.
NextSetup ==
    \/ Lifecycle
    \/ Fetched
    \/ Handshake
    \/ HandshakeFailed

SpecSetup == Init /\ [][NextSetup]_vars

\* The connection: the handshake and what becomes of the connection after.
NextTransport ==
    \/ Lifecycle
    \/ Handshake
    \/ HandshakeFailed
    \/ Transport

SpecTransport == Init /\ [][NextTransport]_vars

\* One session from mount to unmount, the props never changing.
Session ==
    \/ \E p \in Props : Mount(p[1], p[2])
    \/ Unmount

\* The whole chat of one session: history, handshake, inbound messages and
\* the composer.
NextSession ==
    \/ Session
    \/ Fetched
    \/ Handshake
    \/ HandshakeFailed
    \/ Inbound
    \/ Composer

SpecSession == Init /\ [][NextSession]_vars

\* The typing of one session, the user's own and that of the others: the
\* composer beside the typing signals and their expiry.
NextCompose ==
    \/ Session
    \/ Handshake
    \/ Typing
    \/ Composer

SpecCompose == Init /\ [][NextCompose]_vars

\* Everything that reaches one session from outside: the results of its fetch
\* and of its handshake, the events of the transport, the inbound messages
\* and the typing signals.
NextPhases ==
    \/ Session
    \/ Fetched
    \/ Handshake
    \/ HandshakeFailed
    \/ Transport
    \/ Inbound
    \/ Typing

SpecPhases == Init /\ [][NextPhases]_vars

\* The messages GET /rooms/:id/messages may hold: with a timestamp of
\* 1 March 2024, of 29 February 2024 or of 1 March 2023, without one, with
\* one that is no date, and with neither id nor timestamp.
ViewUser == [id |-> "u2", username |-> "bob", firstName |-> "Bob", lastName |-> "Ray"]
ViewMessages ==
    { [id |-> "m1", room_id |-> "A", sent_at |-> "2024-03-01T09:00", user |-> ViewUser],
      [id |-> "m3", room_id |-> "A", sent_at |-> "2024-02-29T23:00", user |-> ViewUser],
      [id |-> "m5", room_id |-> "A", sent_at |-> "2023-03-01T10:00", user |-> ViewUser],
      [id |-> "m2", room_id |-> "A", sent_at |-> None, user |-> ViewUser],
      [id |-> "m6", room_id |-> "A", sent_at |-> "soon", user |-> ViewUser],
      [id |-> None, room_id |-> "A", sent_at |-> None, user |-> ViewUser] }

ViewLists == UNION { [1..n -> ViewMessages] : n \in 0..MaxList }

\* The hook after useChatRoom('A', 'u1') has mounted and its fetch has
\* resolved with a history of at most MaxList messages: the state of Mount
\* followed by FetchResolve, for any such history.
InitView ==
    /\ messages \in ViewLists
    /\ isLoading = FALSE
    /\ error = None
    /\ roomName = "Room A"
    /\ typingUsers = <<>>
    /\ typingTimeouts = EmptyMap
    /\ isMounted = TRUE
    /\ phase = "mounted"
    /\ sessions = <<[roomId |-> "A", userId |-> Me, fetch |-> "done",
                     conn |-> "pending", sock |-> 1, cleanup |-> TRUE,
                     torn |-> FALSE]>>
    /\ socket = 1
    /\ sockets = OnUserTyping(OnNewMessage(Connect(<<>>), 1, 1), 1, 1)
    /\ timers = {}
    /\ emitted = <<>>
    /\ requests = FetchRoomAndMessages(<<>>, "A", 1)
    /\ last = [op |-> "fetchResolve", sess |-> 1, data |-> None]
    /\ AuthIdle

\* The renders of the view over a fetched history.
NextView == \E now \in Nows : Render(now)

SpecView == InitView /\ [][NextView]_vars

\* The session of AuthProvider: restoring, logging in and out, and the
\* renders of protected routes.
Authentication ==
    \/ InitializeAuth
    \/ Login
    \/ \E response \in LoginResponses : PostResolves(response)
    \/ \E err \in AxiosErrors : PostRejects(err)
    \/ DelayElapses
    \/ Logout

Routes == \E requiredRole \in RouteRoles, minimumRole \in RouteRoles :
              RenderRoute(requiredRole, minimumRole)

NextAuth == Authentication \/ Routes

SpecAuth == InitAuth /\ [][NextAuth]_vars

\* The same, where a request that is posted is answered or fails, and a
\* delay that was started elapses.
SpecLogin ==
    /\ InitAuth
    /\ [][Authentication]_vars
    /\ WF_vars(\E response \in LoginResponses : PostResolves(response))
    /\ WF_vars(\E err \in AxiosErrors : PostRejects(err))
    /\ WF_vars(DelayElapses)

(***************************************************************************)
(* Properties.                                                             *)
(***************************************************************************)
\* the session of the latest effect run is live: its cleanup has not run
Active == Cur > 0 /\ ~sessions[Cur].torn

\* the sessions whose handlers socket k calls
Listeners(k) == Range(sockets[k].newMessage) \cup Range(sockets[k].userTyping)

\* a string of nothing but white space (the empty string too)
IsBlank(content) == \A i \in DOMAIN content : content[i] = Blank

TimersOf(ts, userId) == { t \in ts : t.user_id = userId }

\* C1: an inbound new-message changes the message list only if its room_id
\* is the roomId of the live session; an event for any other room, the room
\* of a torn-down session included, leaves the list unchanged.
C1_OnlyActiveRoomAppended ==
    [][ (last'.op = "newMessage" /\ messages' # messages)
            => (Active /\ last'.data.event.room_id = CurRoom) ]_vars

\* C2: a new-message or user-typing event delivered to the handlers of
\* sessions whose cleanup has run changes neither the message list nor the
\* typing set nor the pending timers, whether the view is unmounted or the
\* hook has been initialised again.
C2_LateEventChangesNothing ==
    [][ (/\ last'.op \in {"newMessage", "userTyping"}
         /\ \A s \in Listeners(last'.sess) : sessions[s].torn)
            => UNCHANGED <<messages, typingUsers, timers>> ]_vars

\* C3: the result of a fetch that settles after its session's cleanup is
\* discarded: roomName, messages, error and isLoading keep their values.
C3_StaleFetchDiscarded ==
    [][ (/\ last'.op \in {"fetchResolve", "fetchReject"}
         /\ sessions[last'.sess].torn)
            => UNCHANGED <<roomName, messages, error, isLoading>> ]_vars

NoDuplicates(list) ==
    \A i, j \in DOMAIN list : list[i].userId = list[j].userId => i = j

\* C4: the typing set never holds two entries of one userId, and a handled
\* is_typing=true event leaves exactly one entry for its user, however many
\* such events came before it.
C4_OneEntryPerUser ==
    /\ NoDuplicates(typingUsers)
    /\ (last.op = "userTyping" /\ last.data.is_typing /\ last.data.applied)
          => Count(typingUsers, last.data.user_id) = 1

\* a user already in the typing set signals is_typing=true again
C4_Witness ==
    /\ last.op = "userTyping"
    /\ last.data.is_typing /\ last.data.was /\ last.data.applied
    /\ Count(typingUsers, last.data.user_id) = 1
    /\ Len(typingUsers) = 2

\* C5: a handled is_typing=false event for user u leaves u out of the typing
\* set and leaves no expiry timer of u pending.
C5_StopTypingCancelsTimer ==
    (last.op = "userTyping" /\ ~last.data.is_typing /\ last.data.applied)
        => (/\ last.data.user_id \notin TypingIds
            /\ TimersOf(timers, last.data.user_id) = {})

\* a user has at most one expiry timer pending, and it is the one whose
\* handle the hook holds for that user
LatestTimerOnly ==
    /\ \A t1, t2 \in timers : t1.user_id = t2.user_id => t1 = t2
    /\ \A t \in timers :
          t.user_id \in DOMAIN typingTimeouts /\ typingTimeouts[t.user_id] = t.id

C7_TeardownLeavesAndClears ==
    [][ /\ (last'.op \in {"change", "unmount"} /\ Truthy(CurRoom) /\ Truthy(CurUser))
            => (/\ sessions'[Cur].torn
                /\ Len(emitted') = Len(emitted) + 1
                /\ emitted'[Len(emitted')].ev = "leave-room"
                /\ emitted'[Len(emitted')].room_id = CurRoom
                /\ emitted'[Len(emitted')].user_id = CurUser
                /\ timers' = {}
                /\ typingTimeouts' = EmptyMap)
        /\ (phase' = "unmounted" /\ sessions'[Len(sessions')].torn) => timers' = {} ]_vars

\* a room change cancels the timer of a user shown as typing
C7_Witness ==
    /\ last.op = "change"
    /\ sessions[Cur - 1].torn
    /\ typingUsers # <<>>
    /\ timers = {}
    /\ emitted # <<>> /\ emitted[Len(emitted)].ev = "leave-room"

\* C8: the handlers registered on the sockets are those of the live session
\* alone (none when no session is live), and no socket calls two handlers
\* for one event.
C8_OnlyActiveHandlers ==
    \A k \in DOMAIN sockets :
        /\ \A s \in Listeners(k) : s = Cur /\ Active
        /\ Len(sockets[k].newMessage) <= 1
        /\ Len(sockets[k].userTyping) <= 1

\* C9: sendMessage with empty or white-space content, called directly or by
\* handleSend, emits nothing.
C9_BlankSendEmitsNothing ==
    [][ (last'.op \in {"sendMessage", "handleSend"} /\ IsBlank(last'.data))
            => emitted' = emitted ]_vars

\* sendMessage("  ") in a session that has both ids and a socket
C9_Witness ==
    /\ last.op = "sendMessage"
    /\ last.data = <<Blank, Blank>>
    /\ Truthy(CurRoom) /\ Truthy(CurUser)
    /\ socket # 0
    /\ NumSends(emitted) = 0

\* C10 as stated: sendMessage with empty or white-space content leaves error,
\* isLoading, messages and the typing set as they were.
C10_BlankSendIsSilent ==
    [][ (last'.op = "sendMessage" /\ IsBlank(last'.data))
            => UNCHANGED <<error, isLoading, messages, typingUsers>> ]_vars

\* C10 amended: handleSend with an empty or white-space input changes nothing
\* and emits nothing; sendMessage itself with such content changes error
\* alone, to its invalid-message text.
C10_BlankComposerSendIsSilent ==
    [][ /\ (last'.op = "handleSend" /\ IsBlank(last'.data))
            => UNCHANGED <<error, isLoading, messages, typingUsers, emitted>>
        /\ (last'.op = "sendMessage" /\ IsBlank(last'.data))
            => (/\ error' = "Invalid message or missing room/user ID"
                /\ UNCHANGED <<isLoading, messages, typingUsers, emitted>>) ]_vars

\* handleSend with "  " in a session that has both ids and shows no error
C10_Witness ==
    /\ last.op = "handleSend"
    /\ last.data = <<Blank, Blank>>
    /\ Truthy(CurRoom) /\ Truthy(CurUser)
    /\ error = None

\* the send-message signals among the signals emitted
SendSignals(log) == { i \in DOMAIN log : log[i].ev = "send-message" }

LacksId(s) == ~Truthy(sessions[s].roomId) \/ ~Truthy(sessions[s].userId)

\* C12: an initialisation without roomId or without userId leaves error
\* non-null and isLoading false, and its session starts no work, then or
\* later: no getRoom or getMessages request, no connection, no handler on any
\* socket, no join-room.
C12_MissingIdStartsNothing ==
    /\ (last.op \in {"mount", "change"} /\ LacksId(Cur))
          => (error # None /\ ~isLoading)
    /\ \A s \in DOMAIN sessions :
          LacksId(s) => (/\ \A i \in DOMAIN requests : requests[i].sess # s
                        /\ sessions[s].fetch = "none"
                        /\ sessions[s].conn = "none"
                        /\ sessions[s].sock = 0
                        /\ \A k \in DOMAIN sockets : s \notin Listeners(k))
    /\ \A i \in DOMAIN emitted :
          emitted[i].ev = "join-room"
              => (Truthy(emitted[i].room_id) /\ Truthy(emitted[i].user_id))

\* the join-room signals among the signals emitted
JoinSignals(log) == { i \in DOMAIN log : log[i].ev = "join-room" }

\* C13: a join-room signal is emitted only in the step in which the
\* connect() of a session resolves, with that session's room_id and user_id;
\* the step in which connect() rejects emits nothing; and neither the fetch
\* nor the handshake waits for the other: while one is pending the other can
\* settle.
C13_JoinOnlyAfterHandshake ==
    [][ /\ JoinSignals(emitted') # JoinSignals(emitted)
              => (/\ last'.op = "connectResolve"
                  /\ sessions[last'.sess].conn = "pending"
                  /\ sessions'[last'.sess].conn = "resolved"
                  /\ emitted' = Append(emitted,
                        Signal("join-room", sessions[last'.sess].roomId,
                               sessions[last'.sess].userId, None, socket)))
        /\ last'.op = "connectReject"
              => (emitted' = emitted /\ sessions'[last'.sess].conn = "rejected")
        /\ \A s \in DOMAIN sessions :
              /\ sessions[s].conn = "pending"
                    => (ENABLED ConnectResolve(s) /\ ENABLED ConnectReject(s))
              /\ sessions[s].fetch = "pending" => ENABLED FetchReject(s) ]_vars

\* the join-room of the session is emitted while its fetch is still pending
C13_Witness ==
    /\ last.op = "connectResolve"
    /\ sessions[last.sess].conn = "resolved"
    /\ sessions[last.sess].fetch = "pending"
    /\ emitted # <<>>
    /\ emitted[Len(emitted)].ev = "join-room"
    /\ emitted[Len(emitted)].room_id = sessions[last.sess].roomId

\* the step delivers a new-message event for the room of the live session to
\* the handler of that session
MatchingDelivery ==
    /\ last'.op = "newMessage"
    /\ Active /\ phase = "mounted"
    /\ last'.sess = sessions[Cur].sock
    /\ last'.data.event.room_id = CurRoom

\* C14: a new-message event for the room of the live session is appended:
\* the list after it is the list before it followed by the message of that
\* event, so that events e1..en leave the previous list followed by e1..en in
\* arrival order; no delivery removes or reorders what the list held.
C14_AppendedInArrivalOrder ==
    [][ /\ MatchingDelivery
              => (/\ Len(messages') = Len(messages) + 1
                  /\ SubSeq(messages', 1, Len(messages)) = messages
                  /\ messages'[Len(messages')].id = last'.data.event.id)
        /\ last'.op = "newMessage"
              => (/\ Len(messages') >= Len(messages)
                  /\ SubSeq(messages', 1, Len(messages)) = messages) ]_vars

\* the requests of session s to the endpoint api
RequestsOf(log, s, api) == { i \in DOMAIN log : log[i].sess = s /\ log[i].api = api }

\* C15: when the fetch of the live session fails, isLoading becomes false
\* and error holds a message; a session that has a roomId issues one getRoom
\* and one getMessages, for its roomId, and no step but an initialisation
\* issues a request, so that nothing is asked again after a failure.
C15_FetchFailsOnceNoRetry ==
    [][ /\ (/\ last'.op = "fetchReject"
            /\ last'.sess = Cur
            /\ Active /\ phase = "mounted")
              => (~isLoading' /\ error' = "Failed to fetch room or messages")
        /\ requests' # requests => last'.op \in {"mount", "change"}
        /\ \A s \in DOMAIN sessions' :
              LET n == IF Truthy(sessions'[s].roomId) THEN 1 ELSE 0
              IN  /\ Cardinality(RequestsOf(requests', s, "getRoom")) = n
                  /\ Cardinality(RequestsOf(requests', s, "getMessages")) = n
                  /\ \A i \in DOMAIN requests' :
                        requests'[i].sess = s => requests'[i].roomId = sessions'[s].roomId
      ]_vars

\* the fetch of the live session has failed and its two requests are all that
\* was asked
C15_Witness ==
    /\ last.op = "fetchReject"
    /\ last.sess = Cur /\ Active /\ phase = "mounted"
    /\ Truthy(CurUser)
    /\ ~isLoading
    /\ error = "Failed to fetch room or messages"
    /\ Cardinality(RequestsOf(requests, Cur, "getRoom")) = 1
    /\ Cardinality(RequestsOf(requests, Cur, "getMessages")) = 1

\* C16: when the handshake of the live session fails after its history was
\* fetched, error becomes the transport text, which is not the fetch text,
\* the message list keeps the fetched messages, and the view still shows the
\* message list.
C16_HandshakeFailureKeepsHistory ==
    [][ (/\ last'.op = "connectReject"
         /\ last'.sess = Cur
         /\ Active /\ phase = "mounted"
         /\ sessions[Cur].fetch = "done"
         /\ error = None /\ ~isLoading
         /\ messages # <<>>)
            => (/\ error' = "Failed to connect to socket"
                /\ error' # "Failed to fetch room or messages"
                /\ messages' = messages
                /\ Pane' = "messages") ]_vars

\* the phase Ready: the loading has ended and no error is reported
Ready == ~isLoading /\ error = None

\* C17: a mounted session that is Ready stays Ready in every step but a
\* teardown, and no result of the handshake, no event of the transport and no
\* inbound message or typing signal takes isLoading from false to true.
C17_ReadyIsTerminal ==
    [][ /\ (Ready /\ phase = "mounted" /\ last'.op \notin {"change", "unmount"})
              => Ready'
        /\ (last'.op \in {"connectResolve", "connectReject", "disconnect", "reconnect",
                          "reconnectError", "reconnectFailed", "newMessage",
                          "userTyping", "timerFire"})
              => ~(isLoading' /\ ~isLoading) ]_vars

\* C17 amended: within a session isLoading never goes from false to true
\* (an initialisation alone sets it); the events of the transport after the
\* handshake, the resolved handshake, the inbound messages and the typing
\* signals change neither isLoading nor error; a session that is Ready
\* leaves Ready, short of the next initialisation, only for Error: by the
\* rejection of a handshake, which sets error to the transport text and
\* leaves isLoading false (or, once the props have changed, by a fetch that
\* fails after the late result of another fetch has ended the loading).
C17_LoadingEndsOnceErrorMayFollow ==
    [][ /\ (isLoading' /\ ~isLoading) => last'.op \in {"mount", "change"}
        /\ (last'.op \in {"connectResolve", "disconnect", "reconnect",
                          "reconnectError", "reconnectFailed", "newMessage",
                          "userTyping", "timerFire"})
              => UNCHANGED <<isLoading, error>>
        /\ (Ready /\ ~Ready')
              => (\/ last'.op = "change"
                  \/ /\ last'.op = "connectReject"
                     /\ ~isLoading'
                     /\ error' = "Failed to connect to socket"
                  \/ /\ last'.op = "fetchReject"
                     /\ Cur > 1
                     /\ ~isLoading'
                     /\ error' = "Failed to fetch room or messages") ]_vars

\* the handshake of a Ready session that shows its history is rejected
C17_Witness ==
    /\ last.op = "connectReject"
    /\ last.sess = Cur /\ phase = "mounted"
    /\ sessions[Cur].fetch = "done"
    /\ messages # <<>>
    /\ ~isLoading
    /\ error = "Failed to connect to socket"

\* the sockets whose connection is up
Connected(socks) == { k \in DOMAIN socks : socks[k].connected }

\* C18: connect() called while SocketService holds a socket creates no
\* socket and keeps the one it holds, and at no time are two connections up.
C18_ConnectIsIdempotent ==
    [][ /\ (last'.op \in {"mount", "change"} /\ socket # 0)
              => (Len(sockets') = Len(sockets) /\ socket' = socket)
        /\ Cardinality(Connected(sockets')) <= 1 ]_vars

\* C19: no socket makes more than maxReconnectAttempts attempts to
\* reconnect, and when the attempts of the socket of the live session are
\* used up the session reports the connection failure in error, whether the
\* first handshake failed or the connection broke later.
C19_ExhaustionIsReported ==
    /\ \A k \in DOMAIN sockets : sockets[k].attempts <= maxReconnectAttempts
    /\ (/\ phase = "mounted" /\ Active
        /\ sessions[Cur].sock # 0
        /\ sockets[sessions[Cur].sock].failed)
          => error = "Failed to connect to socket"

\* C20: a new-message event for the room of the live session is appended
\* and its handler does not throw, whatever the event's user lacks, the user
\* itself included; the appended message has the username of the event, else
\* its email, else "Unknown User", and the first and last names of the event,
\* else the empty string.
C20_PartialUserDefaulted ==
    [][ MatchingDelivery
          => LET u == last'.data.event.user
                 m == messages'[Len(messages')]
             IN  /\ ~last'.data.raised
                 /\ Len(messages') = Len(messages) + 1
                 /\ m.id = last'.data.event.id
                 /\ m.user.username =
                        (IF u.username # None THEN u.username
                         ELSE IF u.email # None THEN u.email
                         ELSE "Unknown User")
                 /\ m.user.firstName = (IF u.firstName # None THEN u.firstName ELSE "")
                 /\ m.user.lastName = (IF u.lastName # None THEN u.lastName ELSE "")
      ]_vars

\* C23: sendTyping(isTyping) in a session that has both ids emits exactly
\* one signal, typing with the session's room_id and user_id and is_typing
\* (none when an id is absent), and changes nothing else: messages, the
\* typing set, the expiry timers and their handles, error, isLoading and
\* roomName stay as they were, so that the session's own user never enters
\* the typing set by it.
C23_SendTypingOnlyEmits ==
    [][ last'.op = "sendTyping"
          => (/\ emitted' = IF Truthy(CurRoom) /\ Truthy(CurUser)
                            THEN Append(emitted,
                                   Signal("typing", CurRoom, CurUser, last'.data, socket))
                            ELSE emitted
              /\ UNCHANGED <<messages, typingUsers, typingTimeouts, timers, error,
                             isLoading, roomName>>
              /\ CurUser \notin TypingIds') ]_vars

\* sendTyping(true) while another user is shown as typing
C23_Witness ==
    /\ last.op = "sendTyping"
    /\ last.data = TRUE
    /\ Truthy(CurRoom) /\ Truthy(CurUser)
    /\ TypingIds = {"u2"}
    /\ timers # {}
    /\ emitted[Len(emitted)].ev = "typing"
    /\ emitted[Len(emitted)].user_id = CurUser
    /\ emitted[Len(emitted)].arg = TRUE

\* C24: a user-typing event that names a room other than the room of the
\* live session changes neither the typing set nor the pending expiry
\* timers.
C24_OtherRoomTypingIgnored ==
    [][ \A k \in DOMAIN sockets, data \in UserTypingEvents :
          (/\ UserTyping(k, data)
           /\ data.room_id # None
           /\ data.room_id # CurRoom)
              => UNCHANGED <<typingUsers, timers>> ]_vars

\* C26: a user is in the typing set if and only if an expiry timer is
\* pending for that user.
C26_TypingIffTimer ==
    \A u \in Peers \cup {Me} : (u \in TypingIds) <=> (TimersOf(timers, u) # {})

\* the messages of a list that came in by new-message events, not by the fetch
Inbounds(list) == { m \in Range(list) : \A h \in History(m.room_id) : m \notin Range(h.list) }

\* C27: a message appended by an inbound event stays in the list until
\* teardown; the resolution of a history fetch that was in flight when the
\* event arrived does not remove it.
C27_InboundMessageStays ==
    [][ last'.op \notin {"change", "unmount"}
            => Inbounds(messages) \subseteq Range(messages') ]_vars

\* C28: the connect() of a session whose cleanup has run emits nothing when
\* it resolves, whether the view is unmounted or the hook runs again for
\* another room.
C28_StaleConnectEmitsNothing ==
    [][ (last'.op = "connectResolve" /\ sessions[last'.sess].torn)
            => emitted' = emitted ]_vars

RECURSIVE Flatten(_)
Flatten(groups) ==
    IF groups = <<>> THEN <<>> ELSE Head(groups).items \o Flatten(Tail(groups))

\* C25: the groups partition the reversed list: their items, concatenated in
\* order, are the reversed list; no two adjacent groups have the same label;
\* a message whose sent_at is missing or is no date is under "No date".
C25_GroupsPartitionReversedList ==
    last.op = "render"
      => LET groups == last.data.groups
         IN  /\ Flatten(groups) = Reverse(messages)
             /\ \A i \in DOMAIN groups : groups[i].items # <<>>
             /\ \A i \in 1..(Len(groups) - 1) : groups[i].label # groups[i + 1].label
             /\ \A i \in DOMAIN groups : \A j \in DOMAIN groups[i].items :
                   (\/ ~Truthy(groups[i].items[j].sent_at)
                    \/ ParseDate(groups[i].items[j].sent_at).nan)
                      => groups[i].label = "No date"

C25_Witness ==
    /\ last.op = "render"
    /\ Len(last.data.groups) = 2
    /\ last.data.groups[1].label = "No date"
    /\ Len(last.data.groups[1].items) = 2
    /\ last.data.groups[1].items[1].sent_at = "soon"
    /\ last.data.groups[1].items[2].sent_at = None
    /\ last.data.groups[2].label = "Yesterday"

Distinct(keys) == \A i, j \in DOMAIN keys : keys[i] = keys[j] => i = j

\* C22: in every reachable state of a session the composite keys of the
\* messages of the visible list are pairwise distinct, whatever the history
\* and the inbound events were.
C22_KeysDistinct ==
    \A now \in Nows : Distinct(KeysOf(GroupedMessages(messages, now)))

\* the order STUDENT < TEACHER < ADMIN
Outranks(role, minimumRole) ==
    \/ minimumRole = "STUDENT"
    \/ minimumRole = "TEACHER" /\ role \in {"TEACHER", "ADMIN"}
    \/ minimumRole = "ADMIN" /\ role = "ADMIN"

\* C29: hasMinimumRole(m) is true exactly when a user is logged in whose role
\* is m or above in STUDENT < TEACHER < ADMIN, and ProtectedRoute shows its
\* children only when the authentication is not loading, a user is logged
\* in, and the role asked for, exact or minimum, is met.
C29_RoleGating ==
    /\ \A m \in UserRoles :
          hasMinimumRole(m) <=> (~user.null /\ Outranks(user.role, m))
    /\ (last.op = "route" /\ last.data.shown = "children")
          => (/\ ~authLoading
              /\ ~user.null
              /\ Truthy(last.data.requiredRole) => user.role = last.data.requiredRole
              /\ Truthy(last.data.minimumRole)
                    => Outranks(user.role, last.data.minimumRole))

C29_Witness ==
    /\ last.op = "route"
    /\ last.data.shown = "children"
    /\ last.data.minimumRole = "TEACHER"
    /\ ~user.null /\ user.role = "ADMIN"

\* C30: a call of AuthService.login posts at most three requests: it posts
\* again only after a timeout of one of its first two requests, returns at
\* the first response, throws at once on any other failure and on the third
\* timeout, and so comes to an end.
C30_LoginEndsWithinThreeRequests ==
    /\ [](loginCall.posts <= 3)
    /\ [][ last'.op = "postResolves"
              => (loginCall'.status = "returned" /\ loginCall'.posts = loginCall.posts) ]_vars
    /\ [][ last'.op = "postRejects"
              => (/\ loginCall'.posts = loginCall.posts
                  /\ loginCall'.status =
                        IF Includes(last'.data.message, "timeout") /\ loginCall.posts < 3
                        THEN "delay" ELSE "thrown") ]_vars
    /\ [][ loginCall'.posts # loginCall.posts
              => \/ last'.op = "login" /\ loginCall'.posts = 1
                 \/ /\ last'.op = "delayElapses"
                    /\ loginCall.status = "delay"
                    /\ loginCall.posts < 3
                    /\ loginCall'.status = "posting"
                    /\ loginCall'.posts = loginCall.posts + 1 ]_vars
    /\ (loginCall.status = "posting") ~> (loginCall.status \in {"returned", "thrown"})

C30_Witness ==
    /\ last.op = "postRejects"
    /\ Includes(last.data.message, "timeout")
    /\ loginCall.status = "thrown"
    /\ loginCall.posts = 3

====
